---- MODULE Spec2Model ----
(***************************************************************************)
(* Initialisation of 3d points from feature tracks                         *)
(* (bundle_adjust/feature_tracks/ft_triangulate.py).                       *)
(*                                                                         *)
(* init_pts3d is modelled as a loop over pairs_to_triangulate: one step    *)
(* per list entry, then the return.  The list is read once, front to back, *)
(* by enumerate(); the model draws each entry when the loop reaches it and *)
(* keeps the entries consumed so far as a multiset (consumed), so every    *)
(* order of every list of at most MaxPairs entries is explored.            *)
(* avg_pts3d is float32 in the code; the model computes with exact         *)
(* rationals <<numerator, denominator>> in lowest terms.                   *)
(*                                                                         *)
(* init_pts3d_multiview is modelled by a second loop, one step per track.  *)
(***************************************************************************)
EXTENDS Integers, Sequences, FiniteSets

\* ------------------------------------------------------------ bounds
NCam == 2          \* cameras: C has 2 * NCam rows
NPts == 2          \* at most NPts feature tracks (columns of C)
MaxPairs == 2      \* at most MaxPairs entries in pairs_to_triangulate

\* ------------------------------------------------------------ program constants
Dim == 3           \* np.zeros((n_pts, 3))

\* the missing-value marker of C (np.isnan); pixel coordinates are positive
NaN == -1

\* the entries pairs_to_triangulate may hold: every pair of cameras of C
\* (either order, the two indices equal or not), and entries whose first,
\* second or both indices lie beyond the cameras of C (NCam is the first such
\* index)
Pairs == ((0 .. NCam - 1) \X (0 .. NCam - 1))
            \cup {<<0, NCam>>, <<NCam, 0>>, <<NCam, NCam>>}
CamModels == {"affine", "perspective", "rpc", "pinhole"}

\* ------------------------------------------------------------ rationals
Abs(x) == IF x < 0 THEN -x ELSE x

RECURSIVE GCD(_, _)
GCD(a, b) == IF b = 0 THEN a ELSE GCD(b, a % b)

Norm(n, d) == LET g == GCD(Abs(n), d) IN <<n \div g, d \div g>>
Rat(n) == <<n, 1>>
RatAdd(p, q) == Norm(p[1] * q[2] + q[1] * p[2], p[2] * q[2])
RatScale(k, p) == Norm(k * p[1], p[2])
RatDivInt(p, k) == Norm(p[1], p[2] * k)

ZeroVec == [d \in 1 .. Dim |-> Rat(0)]

\* ------------------------------------------------------------ inputs
\* pixel coordinate stored in row r of C for track t when the camera of that
\* row observes t: distinct values for distinct (r, t)
Pixel(r, t) == 1 + r + 2 * NCam * t

\* the correspondence matrix of n_pts tracks in which camera k observes track
\* t iff obs[k][t]: rows 2k, 2k+1 hold (col, row) or NaN
MatrixOf(n, obs) ==
    [r \in 0 .. 2 * NCam - 1 |->
        [t \in 0 .. n - 1 |-> IF obs[r \div 2][t] THEN Pixel(r, t) ELSE NaN]]

\* the set of cameras observing track t, as a number
RECURSIVE ObserverCode(_, _, _)
ObserverCode(obs, t, k) ==
    IF k < 0 THEN 0
    ELSE (IF obs[k][t] THEN 1 ELSE 0) + 2 * ObserverCode(obs, t, k - 1)

\* Columns of C are independent of each other and in no particular order:
\* the matrices tried list their tracks in the order of their observer sets.
ColumnsOrdered(n, obs) ==
    \A t \in 0 .. n - 2 :
        ObserverCode(obs, t, NCam - 1) <= ObserverCode(obs, t + 1, NCam - 1)

Matrices ==
    UNION { { MatrixOf(n, obs) :
                obs \in { o \in [0 .. NCam - 1 -> [0 .. n - 1 -> BOOLEAN]] :
                            ColumnsOrdered(n, o) } }
            : n \in 0 .. NPts }

\* the camera models, indexed like the camera rows of C: camera k is the
\* model number k + 1
CameraList == [k \in 0 .. NCam - 1 |-> [kind |-> "model", id |-> k + 1]]

VARIABLES
    C,                      \* correspondence matrix (input)
    cameras,                \* camera models (input)
    cam_model,              \* input
    verbose,                \* input
    n_triangulation_pairs,  \* len(pairs_to_triangulate)
    consumed,               \* multiset of the list entries the loop has taken
    pair_idx,               \* number of entries taken
    avg_pts3d,
    n_pairs,
    last_call,              \* triangulator variant of the latest call
    cam_reads,              \* indices k for which cameras[k] was read
    out,                    \* lines handed to flush_print
    pc,                     \* "loop", "done" (returned), "raised", "idle"
    \* init_pts3d_multiview
    cam_container,          \* cameras is a Python "list" or an "ndarray"
    pt_idx,
    pts_3d,
    mv_call,                \* arguments of the latest call of
                            \* linear_triangulation_single_pt_multiview
    mv_error,               \* the exception raised, "" if none
    mv_pc                   \* "select", "solve", "done", "raised", "idle"

aggvars == <<cam_model, n_triangulation_pairs, consumed, pair_idx, avg_pts3d,
             n_pairs, last_call, cam_reads, pc>>
mvvars == <<cam_container, pt_idx, pts_3d, mv_call, mv_error, mv_pc>>
vars == <<C, cameras, verbose, out, aggvars, mvvars>>

\* ------------------------------------------------------------ init_pts3d
\* n_pts, n_cam = C.shape[1], C.shape[0] // 2
NPtsOf(c) == Cardinality(DOMAIN c[0])
NCamOf(c) == Cardinality(DOMAIN c) \div 2
Tracks(c) == 0 .. NPtsOf(c) - 1

\* mask = ~np.isnan(C[::2])
Mask(c) == [k \in 0 .. NCamOf(c) - 1 |-> [t \in Tracks(c) |-> c[2 * k][t] # NaN]]

\* (mutation) only the first index is compared with n_cam
InRange_first_only(c_i, c_j, n_cam) == c_i < n_cam

\* if c_i < n_cam and c_j < n_cam
InRange(c_i, c_j, n_cam) == c_i < n_cam /\ c_j < n_cam

\* (mutation) mask[c_i] | mask[c_j]
PtIndices_or(mask, c_i, c_j) == { t \in DOMAIN mask[c_i] : mask[c_i][t] \/ mask[c_j][t] }

\* (mutation) mask[c_i] alone
PtIndices_first_only(mask, c_i, c_j) == { t \in DOMAIN mask[c_i] : mask[c_i][t] }

\* np.where(mask[c_i] & mask[c_j])[0]
PtIndices(mask, c_i, c_j) == { t \in DOMAIN mask[c_i] : mask[c_i][t] /\ mask[c_j][t] }

\* C[2 * c : 2 * c + 2, t]
Obs2d(c, k, t) == <<c[2 * k][t], c[2 * k + 1][t]>>

\* One view of a correspondence as the triangulators see it: a camera model
\* and a pixel.  The triangulators are library calls (cv2.triangulatePoints,
\* s2p stereo_corresp_to_xyz); the model gives them values that differ for
\* different views.
View(P, x) == P.id + x[1] + x[2]

\* linear triangulation stacks the two rows of each view into one system and
\* takes its null vector (lines 146-161): the same point for (P1, P2) and
\* (P2, P1)
linear_triangulation_multiple_pts(P1, P2, x1, x2) ==
    LET a == View(P1, x1)
        b == View(P2, x2)
    IN  <<Rat(a + b), Rat(a * b), Rat((a - b) * (a - b))>>

\* the RPC routine is asked for the first view against the second
rpc_triangulation(rpc1, rpc2, x1, x2) ==
    LET a == View(rpc1, x1)
        b == View(rpc2, x2)
    IN  <<Rat(a), Rat(b), Rat(a + 2 * b)>>

\* if cam_model in ["affine", "perspective"]: ... else: ...
Variant(m) == IF m \in {"affine", "perspective"} THEN "linear" ELSE "rpc"

Triangulate(m, P1, P2, x1, x2) ==
    IF Variant(m) = "linear"
    THEN linear_triangulation_multiple_pts(P1, P2, x1, x2)
    ELSE rpc_triangulation(P1, P2, x1, x2)

\* the pairwise estimate of track t from cameras c_i, c_j
Estimate(c, cams, m, c_i, c_j, t) ==
    Triangulate(m, cams[c_i], cams[c_j], Obs2d(c, c_i, t), Obs2d(c, c_j, t))

\* new_values = np.zeros((n_pts, 3)); new_values[pt_indices] = new_pts3d
NewValues(c, cams, m, c_i, c_j, pt_indices) ==
    [t \in Tracks(c) |->
        IF t \in pt_indices THEN Estimate(c, cams, m, c_i, c_j, t) ELSE ZeroVec]

\* (mutation) a moving average: avg[t] = (avg[t] + new_v[t]) / 2
update_avg_pts3d_moving(avg, count, new_v, t) ==
    LET count2 == [k \in DOMAIN count |-> IF k \in t THEN count[k] + 1 ELSE count[k]]
        avg2 == [k \in DOMAIN avg |->
                    IF k \in t
                    THEN [d \in 1 .. Dim |->
                            RatDivInt(RatAdd(avg[k][d], new_v[k][d]), 2)]
                    ELSE avg[k]]
    IN  <<avg2, count2>>

\* (mutation) the previous average weighted by count[t] instead of count[t] - 1
update_avg_pts3d_overweight(avg, count, new_v, t) ==
    LET count2 == [k \in DOMAIN count |-> IF k \in t THEN count[k] + 1 ELSE count[k]]
        avg2 == [k \in DOMAIN avg |->
                    IF k \in t
                    THEN [d \in 1 .. Dim |->
                            RatDivInt(RatAdd(RatScale(count2[k], avg[k][d]),
                                             new_v[k][d]),
                                      count2[k])]
                    ELSE avg[k]]
    IN  <<avg2, count2>>

\* (mutation) every track is updated, not only the tracks t
update_avg_pts3d_all(avg, count, new_v, t) ==
    LET count2 == [k \in DOMAIN count |-> count[k] + 1]
        avg2 == [k \in DOMAIN avg |->
                    [d \in 1 .. Dim |->
                        RatDivInt(RatAdd(RatScale(count2[k] - 1, avg[k][d]),
                                         new_v[k][d]),
                                  count2[k])]]
    IN  <<avg2, count2>>

\* count[t] += 1.0
\* avg[t] = ((count[t] - 1.0) * avg[t] + new_v[t]) / count[t]
update_avg_pts3d(avg, count, new_v, t) ==
    LET count2 == [k \in DOMAIN count |-> IF k \in t THEN count[k] + 1 ELSE count[k]]
        avg2 == [k \in DOMAIN avg |->
                    IF k \in t
                    THEN [d \in 1 .. Dim |->
                            RatDivInt(RatAdd(RatScale(count2[k] - 1, avg[k][d]),
                                             new_v[k][d]),
                                      count2[k])]
                    ELSE avg[k]]
    IN  <<avg2, count2>>

\* (mutation) np.ones in place of np.zeros
InitAvg_ones(c) == [t \in Tracks(c) |-> [d \in 1 .. Dim |-> Rat(1)]]

\* avg_pts3d = np.zeros((n_pts, 3)); n_pairs = np.zeros(n_pts)
InitAvg(c) == [t \in Tracks(c) |-> ZeroVec]
InitCount(c) == [t \in Tracks(c) |-> 0]

\* What one loop iteration does to <<avg_pts3d, n_pairs>> when it raises
\* nothing (lines 100-117).
LoopBody(c, cams, m, acc, c_i, c_j) ==
    IF InRange(c_i, c_j, NCamOf(c))
    THEN LET pt_indices == PtIndices(Mask(c), c_i, c_j) IN
         IF pt_indices = {}
         THEN acc
         ELSE update_avg_pts3d(acc[1], acc[2],
                               NewValues(c, cams, m, c_i, c_j, pt_indices),
                               pt_indices)
    ELSE acc

AddPair(bag, p) == [bag EXCEPT ![p] = @ + 1]

NoCall == [pts2d |-> << >>, projection_matrices |-> << >>, called |-> FALSE]

InitWith(verbosity) ==
    /\ C \in Matrices
    /\ cameras = CameraList
    /\ cam_model \in CamModels
    /\ verbose = verbosity
    /\ n_triangulation_pairs \in 0 .. MaxPairs
    /\ consumed = [p \in Pairs |-> 0]
    /\ pair_idx = 0
    /\ avg_pts3d = InitAvg(C)
    /\ n_pairs = InitCount(C)
    /\ last_call = "none"
    /\ cam_reads = {}
    /\ out = IF verbose THEN << <<"computing", NPtsOf(C)>> >> ELSE << >>
    /\ pc = "loop"
    /\ cam_container = "list"
    /\ pt_idx = 0
    /\ pts_3d = InitAvg(C)
    /\ mv_call = NoCall
    /\ mv_error = ""
    /\ mv_pc = "idle"

\* for pair_idx, (c_i, c_j) in enumerate(pairs_to_triangulate): one iteration
ProcessPair(c_i, c_j) ==
    /\ pc = "loop"
    /\ pair_idx < n_triangulation_pairs
    /\ consumed' = AddPair(consumed, <<c_i, c_j>>)
    /\ pair_idx' = pair_idx + 1
    /\ UNCHANGED <<C, cameras, cam_model, verbose, n_triangulation_pairs, mvvars>>
    /\ IF InRange(c_i, c_j, NCamOf(C))
       THEN IF ~(c_i \in DOMAIN Mask(C) /\ c_j \in DOMAIN Mask(C))
            THEN \* mask[c_i]: IndexError
                 /\ pc' = "raised"
                 /\ UNCHANGED <<avg_pts3d, n_pairs, last_call, cam_reads, out>>
            ELSE IF PtIndices(Mask(C), c_i, c_j) = {}
                 THEN \* continue
                      UNCHANGED <<avg_pts3d, n_pairs, last_call, cam_reads, out, pc>>
                 ELSE LET acc == LoopBody(C, cameras, cam_model,
                                          <<avg_pts3d, n_pairs>>, c_i, c_j)
                      IN  /\ avg_pts3d' = acc[1]
                          /\ n_pairs' = acc[2]
                          /\ last_call' = Variant(cam_model)
                          /\ cam_reads' = cam_reads \cup {c_i, c_j}
                          /\ \E late \in BOOLEAN :   \* time.time() - last_print > 10
                                out' = IF verbose /\ (late \/ pair_idx = n_triangulation_pairs - 1)
                                       THEN Append(out, <<"pairs", pair_idx + 1,
                                                          n_triangulation_pairs>>)
                                       ELSE out
                          /\ pc' = pc
       ELSE UNCHANGED <<avg_pts3d, n_pairs, last_call, cam_reads, out, pc>>

\* if verbose: flush_print("done!"); return avg_pts3d
Return ==
    /\ pc = "loop"
    /\ pair_idx = n_triangulation_pairs
    /\ pc' = "done"
    /\ out' = IF verbose THEN Append(out, <<"done!">>) ELSE out
    /\ UNCHANGED <<C, cameras, cam_model, verbose, n_triangulation_pairs, consumed,
                   pair_idx, avg_pts3d, n_pairs, last_call, cam_reads, mvvars>>

Next ==
    \/ \E p \in Pairs : ProcessPair(p[1], p[2])
    \/ Return

\* verbose = False (the default)
Init == InitWith(FALSE)
Spec == Init /\ [][Next]_vars

\* verbose = True
InitVerbose == InitWith(TRUE)
SpecVerbose == InitVerbose /\ [][Next]_vars

\* ------------------------------------------------------------ init_pts3d_multiview
\* true_where_obs = np.invert(np.isnan(C))
TrueWhereObs(c) == [r \in DOMAIN c |-> [t \in Tracks(c) |-> c[r][t] # NaN]]

\* the indices below n at which row(k) holds, in increasing order (the array
\* np.where gives for one axis)
RECURSIVE WhereBelow(_, _)
WhereBelow(row, n) ==
    IF n = 0 THEN << >>
    ELSE IF row[n - 1] THEN Append(WhereBelow(row, n - 1), n - 1)
         ELSE WhereBelow(row, n - 1)

\* np.where(true_where_obs[::2, pt_idx]): a tuple holding one index array
WhereObserved(c, t) ==
    << WhereBelow([k \in 0 .. NCamOf(c) - 1 |-> TrueWhereObs(c)[2 * k][t]], NCamOf(c)) >>

\* C[true_where_obs[:, pt_idx], pt_idx]
Pts2d(c, t) ==
    LET rows == WhereBelow([r \in DOMAIN c |-> TrueWhereObs(c)[r][t]], 2 * NCamOf(c))
    IN  [i \in 1 .. Len(rows) |-> c[rows[i]][t]]

TypeError == [kind |-> "TypeError", id |-> 0]

\* cameras[cam_idx] for cam_idx an index array.  An ndarray of camera
\* matrices answers with the stack of the selected matrices; a Python list
\* refuses an array as index (TypeError), except that NumPy versions differ on
\* an array of one element, which some convert to the integer it holds.
IndexByArray(container, cams, idx) ==
    IF container = "ndarray"
    THEN { [kind |-> "stack", id |-> [i \in 1 .. Len(idx) |-> cams[idx[i]].id]] }
    ELSE {TypeError} \cup (IF Len(idx) = 1 THEN { cams[idx[1]] } ELSE {})

\* array shapes: a camera matrix is 3 x 4, a stack of M of them M x 3 x 4
ShapeOf(P) == IF P.kind = "stack" THEN <<Len(P.id), 3, 4>> ELSE <<3, 4>>

Min(a, b) == IF a < b THEN a ELSE b
Reverse(s) == [i \in 1 .. Len(s) |-> s[Len(s) + 1 - i]]

\* define_row reads pts2d[2 * i], pts2d[2 * i + 1] and P[0, :], P[1, :], P[2, :]
DefineRowFails(pts2d, i, P) ==
    \/ Len(pts2d) < 2 * i + 2
    \/ ShapeOf(P)[1] < 3

\* A = np.array([define_row(pts2d, i, P) for i, P in enumerate(...)]):
\* one entry per list element, each a pair of P[k, :]-shaped rows
ShapeOfA(projection_matrices) ==
    <<Len(projection_matrices), 2>> \o Tail(ShapeOf(projection_matrices[1]))

\* u, s, vh = np.linalg.svd(A, full_matrices=False) works on the last two
\* axes; pt_3d = vh.T[:3, -1] / vh.T[-1, -1]
ShapeOfResult(projection_matrices) ==
    LET a == ShapeOfA(projection_matrices)
        n == Len(a)
        vh == [i \in 1 .. n |-> IF i = n - 1 THEN Min(a[n - 1], a[n]) ELSE a[i]]
        vhT == Reverse(vh)
    IN  <<Min(3, vhT[1])>> \o SubSeq(vhT, 3, n)

\* pts_3d[pt_idx, :] = value: the value must broadcast to shape (3,)
RECURSIVE StripOnes(_)
StripOnes(s) == IF Len(s) > 1 /\ s[1] = 1 THEN StripOnes(Tail(s)) ELSE s

Assignable(shape) == StripOnes(shape) \in {<<3>>, <<1>>}

\* the point the solve yields for a call (a library result)
MultiviewPoint(pts2d, projection_matrices) ==
    [d \in 1 .. Dim |-> Rat(Len(pts2d) + d)]

InitMultiview ==
    /\ C \in Matrices
    /\ cameras = CameraList
    /\ verbose \in BOOLEAN
    /\ out = << >>
    /\ cam_model = "perspective"
    /\ n_triangulation_pairs = 0
    /\ consumed = [p \in Pairs |-> 0]
    /\ pair_idx = 0
    /\ avg_pts3d = InitAvg(C)
    /\ n_pairs = InitCount(C)
    /\ last_call = "none"
    /\ cam_reads = {}
    /\ pc = "idle"
    /\ cam_container \in {"list", "ndarray"}
    /\ pt_idx = 0
    /\ pts_3d = InitAvg(C)
    /\ mv_call = NoCall
    /\ mv_error = ""
    /\ mv_pc = "select"

\* lines 175-176: the arguments of the call for track pt_idx
MvSelect ==
    /\ mv_pc = "select"
    /\ pt_idx < NPtsOf(C)
    /\ \E picked \in IndexByArray(cam_container, cameras, WhereObserved(C, pt_idx)[1]) :
          IF picked = TypeError
          THEN /\ mv_pc' = "raised"
               /\ mv_error' = "TypeError"
               /\ UNCHANGED mv_call
          ELSE \* [cameras[cam_idx] for cam_idx in np.where(...)]: one element
               \* per element of the tuple np.where returns
               /\ mv_call' = [pts2d |-> Pts2d(C, pt_idx),
                              projection_matrices |->
                                  [i \in 1 .. Len(WhereObserved(C, pt_idx)) |-> picked],
                              called |-> TRUE]
               /\ mv_pc' = "solve"
               /\ UNCHANGED mv_error
    /\ UNCHANGED <<C, cameras, verbose, out, aggvars, cam_container, pt_idx, pts_3d>>

\* line 177 and the progress report of lines 179-182
MvSolve ==
    /\ mv_pc = "solve"
    /\ UNCHANGED <<C, cameras, verbose, aggvars, cam_container, mv_call>>
    /\ IF \E i \in 1 .. Len(mv_call.projection_matrices) :
            DefineRowFails(mv_call.pts2d, i - 1, mv_call.projection_matrices[i])
       THEN /\ mv_pc' = "raised"
            /\ mv_error' = "IndexError"
            /\ UNCHANGED <<pt_idx, pts_3d, out>>
       ELSE IF ~Assignable(ShapeOfResult(mv_call.projection_matrices))
            THEN /\ mv_pc' = "raised"
                 /\ mv_error' = "ValueError"
                 /\ UNCHANGED <<pt_idx, pts_3d, out>>
            ELSE /\ pts_3d' = [pts_3d EXCEPT ![pt_idx] =
                                  MultiviewPoint(mv_call.pts2d, mv_call.projection_matrices)]
                 /\ pt_idx' = pt_idx + 1
                 /\ mv_pc' = "select"
                 /\ \E late \in BOOLEAN :
                       out' = IF verbose /\ (late \/ pt_idx = NPtsOf(C) - 1)
                              THEN Append(out, <<"points", pt_idx + 1, NPtsOf(C)>>)
                              ELSE out
                 /\ UNCHANGED mv_error

\* return pts_3d
MvReturn ==
    /\ mv_pc = "select"
    /\ pt_idx = NPtsOf(C)
    /\ mv_pc' = "done"
    /\ UNCHANGED <<C, cameras, verbose, out, aggvars, cam_container, pt_idx, pts_3d,
                   mv_call, mv_error>>

NextMultiview == MvSelect \/ MvSolve \/ MvReturn

SpecMultiview == InitMultiview /\ [][NextMultiview]_vars

\* ------------------------------------------------------------ properties
\* Vocabulary of the properties, read off the inputs alone.

\* camera k observes track t: the primary coordinate is not missing
Observes(k, t) == C[2 * k][t] # NaN
Observers(t) == { k \in 0 .. NCam - 1 : Observes(k, t) }
NTracks == Cardinality(DOMAIN C[0])
TrackSet == 0 .. NTracks - 1

\* a list entry naming an index >= n_cameras (n_cameras = rows of C / 2)
OutOfRange(p) ==
    \/ p[1] >= Cardinality(DOMAIN C) \div 2
    \/ p[2] >= Cardinality(DOMAIN C) \div 2

\* a list entry that is in range and has both cameras observing t
Contributes(p, t) == ~OutOfRange(p) /\ Observes(p[1], t) /\ Observes(p[2], t)

RECURSIVE SumOver(_, _)
SumOver(S, f) ==
    IF S = {} THEN 0
    ELSE LET x == CHOOSE y \in S : TRUE IN f[x] + SumOver(S \ {x}, f)

\* the entries taken so far that contribute to t
Contributing(t) == { p \in Pairs : consumed[p] > 0 /\ Contributes(p, t) }

\* their number, with multiplicity
Contributors(t) == SumOver(Contributing(t), consumed)

\* sum over those entries of coordinate d of the pairwise estimate of t
EstimateSum(t, d) ==
    SumOver(Contributing(t),
            [p \in Contributing(t) |->
                consumed[p] * Estimate(C, cameras, cam_model, p[1], p[2], t)[d][1]])

ArithmeticMean(t) ==
    [d \in 1 .. Dim |->
        IF Contributors(t) = 0 THEN Rat(0) ELSE Norm(EstimateSum(t, d), Contributors(t))]

TookEntry(p) == consumed'[p] = consumed[p] + 1

\* init_pts3d's accumulators after the entries of a multiset, taken in
\* increasing order of the pairs (an entry held k times is taken k times)
Rank(p) == p[1] * (NCam + 1) + p[2]

RECURSIVE Repeated(_, _, _)
Repeated(acc, p, k) ==
    IF k = 0 THEN acc
    ELSE Repeated(LoopBody(C, cameras, cam_model, acc, p[1], p[2]), p, k - 1)

RECURSIVE FoldEntries(_, _)
FoldEntries(bag, S) ==
    IF S = {} THEN <<InitAvg(C), InitCount(C)>>
    ELSE LET last == CHOOSE x \in S : \A y \in S : Rank(y) <= Rank(x)
         IN  Repeated(FoldEntries(bag, S \ {last}), last, bag[last])

Aggregate(bag) == FoldEntries(bag, { p \in Pairs : bag[p] > 0 })

InRangeOnly(bag) == [p \in Pairs |-> IF OutOfRange(p) THEN 0 ELSE bag[p]]

\* C1. Order independence: whatever order the loop took the entries in, the
\* averages are the ones obtained by taking the same entries in increasing
\* order of the pairs; the result depends on the multiset of entries only.
C1_OrderIndependence ==
    pc \in {"loop", "done"} => avg_pts3d = Aggregate(consumed)[1]

\* a returned run in which some track received several estimates, not all
\* equal
C1_Witness ==
    /\ pc = "done"
    /\ \E t \in TrackSet :
          /\ n_pairs[t] >= 2
          /\ \E p, q \in Pairs :
                /\ consumed[p] > 0 /\ consumed[q] > 0
                /\ Contributes(p, t) /\ Contributes(q, t)
                /\ Estimate(C, cameras, cam_model, p[1], p[2], t)
                     # Estimate(C, cameras, cam_model, q[1], q[2], t)

\* C2. Out-of-range tolerance: a step that takes an entry naming an index
\* >= n_cameras raises nothing, reads no camera and leaves avg_pts3d and
\* n_pairs as they were; and the averages are always those of the same
\* entries with the out-of-range ones removed.
C2_OutOfRangeSkipped ==
    /\ [](pc \in {"loop", "done"} =>
            avg_pts3d = Aggregate(InRangeOnly(consumed))[1])
    /\ [][\A p \in Pairs :
            (OutOfRange(p) /\ TookEntry(p)) =>
                /\ pc' = pc
                /\ avg_pts3d' = avg_pts3d
                /\ n_pairs' = n_pairs
                /\ cam_reads' = cam_reads]_vars

\* a returned run that took an out-of-range entry and triangulated a track
C2_Witness ==
    /\ pc = "done"
    /\ \E p \in Pairs : OutOfRange(p) /\ consumed[p] > 0
    /\ \E t \in TrackSet : n_pairs[t] > 0

\* C3. Unobserved-track sentinel: a track whose count is 0, or to which no
\* consumed entry contributes, has the zero vector as its average.
C3_ZeroSentinel ==
    \A t \in TrackSet :
        (n_pairs[t] = 0 \/ Contributors(t) = 0) =>
            /\ n_pairs[t] = 0
            /\ avg_pts3d[t] = <<Rat(0), Rat(0), Rat(0)>>

\* a returned run with one track triangulated and another one never
C3_Witness ==
    /\ pc = "done"
    /\ \E t, u \in TrackSet :
          /\ n_pairs[t] = 0 /\ avg_pts3d[t] = ZeroVec
          /\ Observers(t) # {}
          /\ n_pairs[u] > 0

\* C4 as claimed: for a track seen by exactly the cameras i and j, once the
\* list holds the pair (i, j) the returned average is the estimate of that
\* pair, whatever else the list holds.
C4_TwoCameraAsClaimed ==
    pc = "done" =>
        \A t \in TrackSet : \A i, j \in 0 .. NCam - 1 :
            (i # j /\ Observers(t) = {i, j} /\ consumed[<<i, j>>] > 0) =>
                avg_pts3d[t] = Estimate(C, cameras, cam_model, i, j, t)

\* C4 (amended). Two-camera consistency: for a track seen by exactly the
\* cameras i and j, when (i, j) is in the list and is the only entry made of
\* those two cameras (no (j, i), (i, i) or (j, j); (i, j) itself any number of
\* times), the returned average is the estimate of (i, j), whatever other
\* entries the list holds.
C4_TwoCameraConsistency ==
    pc = "done" =>
        \A t \in TrackSet : \A i, j \in 0 .. NCam - 1 :
            ( /\ i # j
              /\ Observers(t) = {i, j}
              /\ consumed[<<i, j>>] > 0
              /\ \A p \in Pairs :
                    (consumed[p] > 0 /\ p[1] \in {i, j} /\ p[2] \in {i, j})
                        => p = <<i, j>> ) =>
                avg_pts3d[t] = Estimate(C, cameras, cam_model, i, j, t)

\* a returned run whose list holds (i, j) and another entry, and whose
\* average for a track seen by i and j only is the estimate of (i, j)
C4_Witness ==
    /\ pc = "done"
    /\ \E t \in TrackSet : \E i, j \in 0 .. NCam - 1 :
          /\ i # j
          /\ Observers(t) = {i, j}
          /\ consumed[<<i, j>>] > 0
          /\ \E q \in Pairs : q # <<i, j>> /\ consumed[q] > 0
          /\ n_pairs[t] > 0
          /\ avg_pts3d[t] = Estimate(C, cameras, cam_model, i, j, t)

\* C5. Empty pair list: the call raises nothing, can always return, and
\* returns n_tracks rows of three zeros.
C5_EmptyPairList ==
    n_triangulation_pairs = 0 =>
        /\ pc # "raised"
        /\ pc = "loop" => ENABLED Return
        /\ pc = "done" =>
              /\ DOMAIN avg_pts3d = 0 .. NTracks - 1
              /\ \A t \in DOMAIN avg_pts3d : avg_pts3d[t] = <<Rat(0), Rat(0), Rat(0)>>

\* a returned run on the empty list, with tracks seen by both cameras and a
\* cam_model outside the recognised ones
C5_Witness ==
    /\ pc = "done"
    /\ n_triangulation_pairs = 0
    /\ NTracks = NPts
    /\ \A t \in TrackSet : Cardinality(Observers(t)) >= 2
    /\ cam_model = "pinhole"

\* C6 as claimed: with a cam_model outside "affine", "perspective", "rpc" no
\* triangulator variant is ever called and no average or count changes.
C6_InvalidCamModelRejected ==
    cam_model \notin {"affine", "perspective", "rpc"} =>
        /\ last_call = "none"
        /\ cam_reads = {}
        /\ \A t \in TrackSet : n_pairs[t] = 0 /\ avg_pts3d[t] = ZeroVec

\* C7 as claimed: whatever the list, a track seen by fewer than two cameras
\* keeps count 0 and the zero vector.
C7_FewObserversAsClaimed ==
    \A t \in TrackSet :
        Cardinality(Observers(t)) <= 1 =>
            n_pairs[t] = 0 /\ avg_pts3d[t] = ZeroVec

\* C7 (amended). As long as every entry taken names two different cameras, a
\* track seen by fewer than two cameras keeps count 0 and the zero vector: no
\* estimate of it is ever folded in.
C7_FewObserversNoEstimate ==
    (\A p \in Pairs : consumed[p] > 0 => p[1] # p[2]) =>
        \A t \in TrackSet :
            Cardinality(Observers(t)) <= 1 =>
                n_pairs[t] = 0 /\ avg_pts3d[t] = ZeroVec

\* a returned run over entries of different cameras in which a track seen by
\* one camera stayed at zero while that camera triangulated another track
C7_Witness ==
    /\ pc = "done"
    /\ \A p \in Pairs : consumed[p] > 0 => p[1] # p[2]
    /\ \E t, u \in TrackSet :
          /\ Cardinality(Observers(t)) = 1
          /\ n_pairs[t] = 0 /\ avg_pts3d[t] = ZeroVec
          /\ n_pairs[u] > 0
          /\ Observers(t) \subseteq cam_reads

\* C8. Running mean: after any prefix of the list each track's count is the
\* number of entries taken that are in range and have both cameras observing
\* it, its average is the arithmetic mean of the estimates of those entries,
\* and each step changes the tracks co-observed by its two cameras only, their
\* counts by one.
C8_RunningMean ==
    /\ [](pc \in {"loop", "done"} =>
            \A t \in TrackSet :
                /\ n_pairs[t] = Contributors(t)
                /\ avg_pts3d[t] = ArithmeticMean(t))
    /\ [][\A p \in Pairs : TookEntry(p) =>
            \A t \in TrackSet :
                IF Contributes(p, t)
                THEN n_pairs'[t] = n_pairs[t] + 1
                ELSE n_pairs'[t] = n_pairs[t] /\ avg_pts3d'[t] = avg_pts3d[t]]_vars

\* a run in which one track holds the mean of several estimates and another
\* track, not seen by both cameras of every entry, a single estimate
C8_Witness ==
    \E t, u \in TrackSet :
        /\ n_pairs[t] >= 2
        /\ n_pairs[u] = 1
        /\ avg_pts3d[t] = ArithmeticMean(t)
        /\ avg_pts3d[t] # avg_pts3d[u]

\* C9 as claimed: for a track seen by M cameras (here M >= 2), once the
\* arguments are selected linear_triangulation_single_pt_multiview is called
\* with one projection matrix per observing camera, in increasing camera
\* index, and the 2M observations of those cameras.
C9_MultiviewArguments ==
    LET seen == IF pt_idx \in TrackSet THEN WhereObserved(C, pt_idx)[1] ELSE << >>
    IN  (mv_pc \in {"solve", "raised"} /\ Len(seen) >= 2) =>
            /\ mv_call.called
            /\ Len(mv_call.projection_matrices) = Len(seen)
            /\ \A i \in 1 .. Len(seen) :
                  i <= Len(mv_call.projection_matrices)
                      => mv_call.projection_matrices[i] = cameras[seen[i]]
            /\ Len(mv_call.pts2d) = 2 * Len(seen)

\* C10 as claimed: a verbose run over a non-empty list has reported
\* "n/n triangulation pairs done" by the time it returns.
C10_FinalReport ==
    (pc = "done" /\ verbose /\ n_triangulation_pairs > 0) =>
        \E i \in 1 .. Len(out) :
            out[i] = <<"pairs", n_triangulation_pairs, n_triangulation_pairs>>

====
